---- MODULE Spec2Model ----
(***************************************************************************)
(* Verification model of phosphorenderer: the stylesheet parser            *)
(* (src/src/css.rs) and the block layout engine (src/src/layout.rs).       *)
(*                                                                         *)
(* Pixel lengths (f32 in the source) are modelled as integers; every      *)
(* length used below is an even integer, so the one division of the       *)
(* source (underflow / 2.0) is exact.                                      *)
(***************************************************************************)
EXTENDS Integers, Sequences, FiniteSets, TLC

VARIABLES
    tree,       \* the styled tree handed to layout_tree (owned by the caller)
    cb,         \* the caller's containing block (passed by value, Copy)
    out,        \* the box tree returned by the last layout_tree call
    prev,       \* the box tree returned by the call before it
    calls,      \* number of layout_tree calls made so far
    incoming,   \* the content.height the caller's block carried into each call
    written,    \* the rules of the stylesheet source, part by part as written
    source,     \* the stylesheet source text handed to parse
    parser,     \* the Parser working on it
    sheet       \* the Stylesheet parse returned, if it returned

vars == <<tree, cb, out, prev, calls, incoming, written, source, parser, sheet>>

\* ---------------------------------------------------------------- bounds
MaxNodes == 3       \* styled trees have at most this many nodes
MaxDecls == 1       \* declarations on the single styled node of the style family
MaxCalls == 2       \* layout_tree calls per behaviour
MaxSelectors == 3   \* selectors in the first rule of a stylesheet source
MaxRules == 2       \* rules in a stylesheet source

\* ------------------------------------------------- css.rs: the value model
Keyword(s) == [kind |-> "Keyword", kw |-> s]
Length(n, u) == [kind |-> "Length", num |-> n, unit |-> u]
ColorValue(r, g, b, a) == [kind |-> "ColorValue", r |-> r, g |-> g, b |-> b, a |-> a]

\* Value::to_px
to_px(v) == IF v.kind = "Length" THEN (IF v.unit = "Px" THEN v.num ELSE 0) ELSE 0

\* ------------------------------------- style.rs (not in src/): StyledNode
\* Option::None of StyledNode::value
NoValue == [kind |-> "None"]

Display == {"Block", "Inline", "DisplayNone"}

\* StyledNode::display
display(node) == node.display

\* StyledNode::value: the declared value of a property, if any
value(node, name) ==
    IF name \in DOMAIN node.specified THEN node.specified[name] ELSE NoValue

\* StyledNode::lookup: first declared of name / shorthand, else the default
lookup(node, name, fallback, default) ==
    IF value(node, name) # NoValue THEN value(node, name)
    ELSE IF value(node, fallback) # NoValue THEN value(node, fallback)
    ELSE default

\* ------------------------------------------------ layout.rs: data model
ZeroRect == [x |-> 0, y |-> 0, width |-> 0, height |-> 0]
ZeroEdges == [left |-> 0, right |-> 0, top |-> 0, bottom |-> 0]

\* Dimensions::default()
DefaultDimensions ==
    [content |-> ZeroRect, padding |-> ZeroEdges, border |-> ZeroEdges, margin |-> ZeroEdges]

BlockNode(n) == [tag |-> "BlockNode", node |-> n]
InlineNode(n) == [tag |-> "InlineNode", node |-> n]
AnonymousBlock == [tag |-> "AnonymousBlock"]

\* LayoutBox::new
LayoutBox_new(box_type) ==
    [dimensions |-> DefaultDimensions, box_type |-> box_type, children |-> <<>>]

\* The outcome of a call that panicked: no box is returned.
Panicked == [dimensions |-> DefaultDimensions, box_type |-> [tag |-> "Panic"], children |-> <<>>]
IsPanic(b) == b.box_type.tag = "Panic"

\* No call made yet.
NoBox == [dimensions |-> DefaultDimensions, box_type |-> [tag |-> "NoBox"], children |-> <<>>]

\* Rect::expanded_by
expanded_by(r, edge) ==
    [x |-> r.x - edge.left,
     y |-> r.y - edge.top,
     width |-> r.width + edge.left + edge.right,
     height |-> r.height + edge.top + edge.bottom]

\* Dimensions::padding_box
padding_box(d) == expanded_by(d.content, d.padding)

\* Dimensions::border_box
border_box(d) == expanded_by(padding_box(d), d.border)

\* Dimensions::margin_box: the source expands by self.border a second time
margin_box(d) == expanded_by(border_box(d), d.border)

\* ------------------------------------- layout.rs: the patterns of the matches
\* layout.rs imports only Value, Unit and StyledNode (lines 1-2) and never
\* brings an enum variant into scope.  In Rust a bare identifier in pattern
\* position that resolves to no constant or variant is an identifier pattern:
\* it binds the scrutinee and matches every value.  The four bare names
\* below are therefore irrefutable; the arms after the first are unreachable.
PatBlock(d) == TRUE             \* `Block =>`, lines 56 and 64
PatInline(d) == TRUE            \* `Inline =>`, lines 57 and 65
PatDisplayNone(d) == TRUE       \* `DisplayNone =>`, lines 58 and 66
PatAnonymousBlock(bt) == TRUE   \* `box_type: AnonymousBlock`, line 90

\* LayoutBox::get_inline_container, as the box with the container in place;
\* the container is the box itself (Inline, AnonymousBlock) or its last child.
get_inline_container(self) ==
    IF self.box_type.tag \in {"InlineNode", "AnonymousBlock"} THEN self
    ELSE IF Len(self.children) > 0 /\ PatAnonymousBlock(self.children[Len(self.children)].box_type)
         THEN self
         ELSE [self EXCEPT !.children = Append(@, LayoutBox_new(AnonymousBlock))]

\* root.get_inline_container().children.push(b)
push_inline(self, b) ==
    LET c == get_inline_container(self) IN
    IF self.box_type.tag \in {"InlineNode", "AnonymousBlock"}
    THEN [c EXCEPT !.children = Append(@, b)]
    ELSE [c EXCEPT !.children[Len(c.children)].children = Append(@, b)]

RECURSIVE build_layout_tree(_)
RECURSIVE build_children(_, _, _)

\* The `for child in &style_node.children` loop of build_layout_tree, from
\* child i on; a panic in a recursive call unwinds the whole build.
build_children(root, kids, i) ==
    IF i > Len(kids) THEN root
    ELSE LET child == kids[i] IN
         IF PatBlock(display(child)) THEN
             LET b == build_layout_tree(child) IN
             IF IsPanic(b) THEN Panicked
             ELSE build_children([root EXCEPT !.children = Append(@, b)], kids, i + 1)
         ELSE IF PatInline(display(child)) THEN
             LET b == build_layout_tree(child) IN
             IF IsPanic(b) THEN Panicked
             ELSE build_children(push_inline(root, b), kids, i + 1)
         ELSE build_children(root, kids, i + 1)

\* build_layout_tree
build_layout_tree(style_node) ==
    IF PatBlock(display(style_node))
    THEN build_children(LayoutBox_new(BlockNode(style_node)), style_node.children, 1)
    ELSE IF PatInline(display(style_node))
    THEN build_children(LayoutBox_new(InlineNode(style_node)), style_node.children, 1)
    ELSE Panicked

\* LayoutBox::get_style_node (only ever called on Block boxes)
get_style_node(self) == self.box_type.node

Auto == Keyword("auto")
Zero == Length(0, "Px")

\* The locals of calculate_block_width when it returns.
block_width_locals(style, containing_block) ==
    LET width0 == IF value(style, "width") # NoValue THEN value(style, "width") ELSE Auto
        ml0 == lookup(style, "margin-left", "margin", Zero)
        mr0 == lookup(style, "margin-right", "margin", Zero)
        border_left == lookup(style, "border-left-width", "border-width", Zero)
        border_right == lookup(style, "border-right-width", "border-width", Zero)
        padding_left == lookup(style, "padding-left", "padding", Zero)
        padding_right == lookup(style, "padding-right", "padding", Zero)
        total == to_px(ml0) + to_px(mr0) + to_px(border_left) + to_px(border_right)
                 + to_px(padding_left) + to_px(padding_right) + to_px(width0)
        over == width0 # Auto /\ total > containing_block.content.width
        ml1 == IF over /\ ml0 = Auto THEN Zero ELSE ml0
        mr1 == IF over /\ mr0 = Auto THEN Zero ELSE mr0
        underflow == containing_block.content.width - total
        base == [width |-> width0, margin_left |-> ml1, margin_right |-> mr1,
                 border_left |-> border_left, border_right |-> border_right,
                 padding_left |-> padding_left, padding_right |-> padding_right,
                 underflow |-> underflow]
    IN  IF width0 = Auto THEN
            LET ml2 == IF ml1 = Auto THEN Zero ELSE ml1
                mr2 == IF mr1 = Auto THEN Zero ELSE mr1
            IN  IF underflow >= 0
                THEN [base EXCEPT !.margin_left = ml2, !.margin_right = mr2,
                                  !.width = Length(underflow, "Px")]
                ELSE [base EXCEPT !.margin_left = ml2, !.width = Zero,
                                  !.margin_right = Length(to_px(mr2) + underflow, "Px")]
        ELSE IF ml1 # Auto /\ mr1 # Auto THEN
            [base EXCEPT !.margin_right = Length(to_px(mr1) + underflow, "Px")]
        ELSE IF ml1 # Auto /\ mr1 = Auto THEN [base EXCEPT !.margin_right = Zero]
        ELSE IF ml1 = Auto /\ mr1 # Auto THEN [base EXCEPT !.margin_left = Zero]
        ELSE [base EXCEPT !.margin_left = Length(underflow \div 2, "Px"),
                          !.margin_right = Length(underflow \div 2, "Px")]

\* LayoutBox::calculate_block_width: the function ends at the match; none of
\* its locals is ever stored into self.dimensions.
calculate_block_width(self, containing_block) ==
    LET locals == block_width_locals(get_style_node(self), containing_block) IN self

\* LayoutBox::calculate_block_position
calculate_block_position(self, containing_block) ==
    LET style == get_style_node(self)
        d0 == self.dimensions
        d1 == [d0 EXCEPT
                !.margin.top = to_px(lookup(style, "margin-top", "margin", Zero)),
                !.margin.bottom = to_px(lookup(style, "margin-bottom", "margin", Zero)),
                !.border.top = to_px(lookup(style, "border-top-width", "border-width", Zero)),
                !.border.bottom = to_px(lookup(style, "border-bottom-width", "border-width", Zero)),
                !.padding.top = to_px(lookup(style, "padding-top-width", "padding-width", Zero)),
                !.padding.bottom = to_px(lookup(style, "padding-bottom-width", "padding-width", Zero))]
        d2 == [d1 EXCEPT !.content.x = containing_block.content.x
                                        + d1.margin.left + d1.border.left + d1.padding.left]
        d3 == [d2 EXCEPT !.content.y = containing_block.content.height + containing_block.content.y
                                        + d2.margin.top + d2.border.top + d2.padding.top]
    IN  [self EXCEPT !.dimensions = d3]

\* a parent that adds only the child's content height
accumulate_content_height(d, child) ==
    [d EXCEPT !.content.height = d.content.height + child.dimensions.content.height]

\* layout_block_children, line 221: the height grows by the child's margin box
accumulate_height(d, child) ==
    [d EXCEPT !.content.height = d.content.height + margin_box(child.dimensions).height]

\* LayoutBox::calculate_block_height
calculate_block_height(self) ==
    LET h == value(get_style_node(self), "height") IN
    IF h.kind = "Length" THEN (IF h.unit = "Px"
                               THEN [self EXCEPT !.dimensions.content.height = h.num]
                               ELSE self)
    ELSE self

RECURSIVE layout(_, _)
RECURSIVE layout_block_children(_, _)

\* LayoutBox::layout_block_children, from child i on
layout_block_children(self, i) ==
    IF i > Len(self.children) THEN self
    ELSE LET child == layout(self.children[i], self.dimensions) IN
         layout_block_children(
             [self EXCEPT !.children[i] = child,
                          !.dimensions = accumulate_height(self.dimensions, child)],
             i + 1)

\* LayoutBox::layout_block
layout_block(self, containing_block) ==
    calculate_block_height(
        layout_block_children(
            calculate_block_position(
                calculate_block_width(self, containing_block),
                containing_block),
            1))

\* LayoutBox::layout
layout(self, containing_block) ==
    IF self.box_type.tag = "BlockNode" THEN layout_block(self, containing_block)
    ELSE self

\* a layout_tree that leaves the incoming content.height in place
keep_height(containing_block) == containing_block

\* layout_tree, line 45
reset_height(containing_block) == [containing_block EXCEPT !.content.height = 0]

\* layout_tree
layout_tree(node, containing_block) ==
    LET root_box == build_layout_tree(node) IN
    IF IsPanic(root_box) THEN Panicked
    ELSE layout(root_box, reset_height(containing_block))

\* ------------------------------------------------ css.rs: the parser
\* Source text is a sequence of one-character strings; pos is 1-based, so
\* Parser.pos = pos - 1.  Each parse step yields [ok, pos, val]; ok = FALSE
\* is a panic (panic!, a failed assert_eq!, unwrap on None/Err, a slice out
\* of range), which unwinds parse as a whole.
LowerCase == <<"a", "b", "c", "d", "e", "f", "g", "h", "i", "j", "k", "l", "m",
               "n", "o", "p", "q", "r", "s", "t", "u", "v", "w", "x", "y", "z">>
UpperCase == <<"A", "B", "C", "D", "E", "F", "G", "H", "I", "J", "K", "L", "M",
               "N", "O", "P", "Q", "R", "S", "T", "U", "V", "W", "X", "Y", "Z">>
DigitChars == <<"0", "1", "2", "3", "4", "5", "6", "7", "8", "9">>
Range(seq) == {seq[i] : i \in 1..Len(seq)}
IndexOf(seq, c) == CHOOSE i \in 1..Len(seq) : seq[i] = c

\* char::is_whitespace, on the characters used
is_whitespace(c) == c \in {" ", "\n", "\t"}

\* valid_identifier_char
valid_identifier_char(c) ==
    c \in Range(LowerCase) \cup Range(UpperCase) \cup Range(DigitChars) \cup {"-", "_"}

\* the test closure of parse_float
is_float_char(c) == c \in Range(DigitChars) \cup {"."}

Done(pos, val) == [ok |-> TRUE, pos |-> pos, val |-> val]
Panic == [ok |-> FALSE, pos |-> 0, val |-> <<>>]

\* Parser::eof
eof(input, pos) == pos > Len(input)

RECURSIVE ident_end(_, _)
\* where consume_while(valid_identifier_char) stops
ident_end(input, pos) ==
    IF ~eof(input, pos) /\ valid_identifier_char(input[pos])
    THEN ident_end(input, pos + 1) ELSE pos

RECURSIVE whitespace_end(_, _)
\* Parser::consume_whitespace: where consume_while(char::is_whitespace) stops
whitespace_end(input, pos) ==
    IF ~eof(input, pos) /\ is_whitespace(input[pos])
    THEN whitespace_end(input, pos + 1) ELSE pos

RECURSIVE float_end(_, _)
float_end(input, pos) ==
    IF ~eof(input, pos) /\ is_float_char(input[pos])
    THEN float_end(input, pos + 1) ELSE pos

\* Parser::parse_identifier
parse_identifier(input, pos) ==
    LET e == ident_end(input, pos) IN Done(e, SubSeq(input, pos, e - 1))

None == [some |-> FALSE]
Some(v) == [some |-> TRUE, v |-> v]

RECURSIVE simple_selector_loop(_, _, _)
\* the while loop of parse_simple_selector
simple_selector_loop(input, pos, selector) ==
    IF eof(input, pos) THEN Done(pos, selector)
    ELSE LET c == input[pos] IN
         IF c = "#" THEN
             LET r == parse_identifier(input, pos + 1) IN
             simple_selector_loop(input, r.pos, [selector EXCEPT !.id = Some(r.val)])
         ELSE IF c = "." THEN
             LET r == parse_identifier(input, pos + 1) IN
             simple_selector_loop(input, r.pos, [selector EXCEPT !.class = Append(@, r.val)])
         ELSE IF c = "*" THEN simple_selector_loop(input, pos + 1, selector)
         ELSE IF valid_identifier_char(c) THEN
             LET r == parse_identifier(input, pos) IN
             simple_selector_loop(input, r.pos, [selector EXCEPT !.tag_name = Some(r.val)])
         ELSE Done(pos, selector)

\* Parser::parse_simple_selector
parse_simple_selector(input, pos) ==
    simple_selector_loop(input, pos, [tag_name |-> None, id |-> None, class |-> <<>>])

\* Selector::specificity
specificity(selector) ==
    <<IF selector.id.some THEN 1 ELSE 0,
      Len(selector.class),
      IF selector.tag_name.some THEN 1 ELSE 0>>

\* Ord::cmp on Specificity = (usize, usize, usize): lexicographic
cmp(x, y) ==
    IF x[1] # y[1] THEN (IF x[1] < y[1] THEN "Less" ELSE "Greater")
    ELSE IF x[2] # y[2] THEN (IF x[2] < y[2] THEN "Less" ELSE "Greater")
    ELSE IF x[3] # y[3] THEN (IF x[3] < y[3] THEN "Less" ELSE "Greater")
    ELSE "Equal"

\* a comparator with its operands the other way round: ascending order
selector_order_ascending(a, b) == cmp(specificity(a), specificity(b))

\* the closure handed to sort_by, line 165
selector_order(a, b) == cmp(specificity(b), specificity(a))

RECURSIVE insert_sorted(_, _, _)
\* x goes before the first element from position i that must come after it
insert_sorted(sorted, x, i) ==
    IF i > Len(sorted) THEN Append(sorted, x)
    ELSE IF selector_order(sorted[i], x) = "Greater"
    THEN SubSeq(sorted, 1, i - 1) \o <<x>> \o SubSeq(sorted, i, Len(sorted))
    ELSE insert_sorted(sorted, x, i + 1)

RECURSIVE sort_by(_, _)
\* slice::sort_by: a stable sort under selector_order
sort_by(selectors, n) ==
    IF n = 0 THEN <<>>
    ELSE insert_sorted(sort_by(selectors, n - 1), selectors[n], 1)

RECURSIVE selectors_loop(_, _, _)
\* the loop of parse_selectors
selectors_loop(input, pos, selectors) ==
    LET r == parse_simple_selector(input, pos)
        sels == Append(selectors, r.val)
        p == whitespace_end(input, r.pos)
    IN  IF eof(input, p) THEN Panic                 \* next_char unwraps None
        ELSE IF input[p] = "," THEN selectors_loop(input, whitespace_end(input, p + 1), sels)
        ELSE IF input[p] = "{" THEN Done(p, sels)
        ELSE Panic                                  \* "Unexpected character"

\* Parser::parse_selectors
parse_selectors(input, pos) ==
    LET r == selectors_loop(input, pos, <<>>) IN
    IF r.ok THEN Done(r.pos, sort_by(r.val, Len(r.val))) ELSE Panic

RECURSIVE decimal(_, _, _)
\* the digits of s[1..n] read as a base-10 number, '.' skipped
decimal(s, n, acc) ==
    IF n > Len(s) THEN acc
    ELSE IF s[n] = "." THEN decimal(s, n + 1, acc)
    ELSE decimal(s, n + 1, 10 * acc + (IndexOf(DigitChars, s[n]) - 1))

\* Parser::parse_float: str::parse::<f32> rejects a second '.'; the number
\* is kept as mantissa / 10^scale
parse_float(input, pos) ==
    LET e == float_end(input, pos)
        s == SubSeq(input, pos, e - 1)
        dots == {i \in 1..Len(s) : s[i] = "."}
    IN  IF Cardinality(dots) > 1 \/ s = <<".">> \/ s = <<>> THEN Panic
        ELSE Done(e, [mantissa |-> decimal(s, 1, 0),
                      scale |-> IF dots = {} THEN 0 ELSE Len(s) - (CHOOSE i \in dots : TRUE)])

\* str::to_ascii_lowercase
to_ascii_lowercase(s) ==
    [i \in 1..Len(s) |->
        IF s[i] \in Range(UpperCase) THEN LowerCase[IndexOf(UpperCase, s[i])] ELSE s[i]]

\* Parser::parse_unit
parse_unit(input, pos) ==
    LET r == parse_identifier(input, pos) IN
    IF to_ascii_lowercase(r.val) = <<"p", "x">> THEN Done(r.pos, "Px") ELSE Panic

\* Parser::parse_length
parse_length(input, pos) ==
    LET f == parse_float(input, pos) IN
    IF ~f.ok THEN Panic
    ELSE LET u == parse_unit(input, f.pos) IN
         IF ~u.ok THEN Panic ELSE Done(u.pos, Length(f.val, u.val))

HexChars == <<"0", "1", "2", "3", "4", "5", "6", "7", "8", "9",
              "a", "b", "c", "d", "e", "f">>
is_hex_digit(c) == to_ascii_lowercase(<<c>>)[1] \in Range(HexChars)
hex_value(c) == IndexOf(HexChars, to_ascii_lowercase(<<c>>)[1]) - 1

\* u8::from_str_radix(s, 16) on the two characters of a pair: two hex
\* digits, or a '+' sign and one hex digit
from_str_radix(s) ==
    IF is_hex_digit(s[1]) /\ is_hex_digit(s[2]) THEN Some(16 * hex_value(s[1]) + hex_value(s[2]))
    ELSE IF s[1] = "+" /\ is_hex_digit(s[2]) THEN Some(hex_value(s[2]))
    ELSE None

\* Parser::parse_hex_pair
parse_hex_pair(input, pos) ==
    IF pos + 1 > Len(input) THEN Panic              \* slice out of range
    ELSE LET v == from_str_radix(SubSeq(input, pos, pos + 1)) IN
         IF v.some THEN Done(pos + 2, v.v) ELSE Panic

\* Parser::parse_color
parse_color(input, pos) ==
    LET r == parse_hex_pair(input, pos + 1) IN
    IF ~r.ok THEN Panic
    ELSE LET g == parse_hex_pair(input, r.pos) IN
         IF ~g.ok THEN Panic
         ELSE LET b == parse_hex_pair(input, g.pos) IN
              IF ~b.ok THEN Panic
              ELSE Done(b.pos, ColorValue(r.val, g.val, b.val, 255))

\* Parser::parse_value
parse_value(input, pos) ==
    IF eof(input, pos) THEN Panic
    ELSE IF input[pos] \in Range(DigitChars) THEN parse_length(input, pos)
    ELSE IF input[pos] = "#" THEN parse_color(input, pos)
    ELSE LET r == parse_identifier(input, pos) IN Done(r.pos, Keyword(r.val))

\* Parser::parse_declaration
parse_declaration(input, pos) ==
    LET name == parse_identifier(input, pos)
        p1 == whitespace_end(input, name.pos)
    IN  IF eof(input, p1) THEN Panic
        ELSE IF input[p1] # ":" THEN Panic
        ELSE LET v == parse_value(input, whitespace_end(input, p1 + 1)) IN
             IF ~v.ok THEN Panic
             ELSE LET p2 == whitespace_end(input, v.pos) IN
                  IF eof(input, p2) THEN Panic
                  ELSE IF input[p2] # ";" THEN Panic
                  ELSE Done(p2 + 1, [name |-> name.val, value |-> v.val])

\* The Parser between two turns of its loops: pc is the loop it stands in
\* ("rules": parse_rules; "declarations": parse_declarations), pos its
\* position, rules the Vec of parse_rules, selectors and declarations the
\* parts of the rule being parsed.
Idle == [pc |-> "idle", pos |-> 1, rules |-> <<>>, selectors |-> <<>>, declarations |-> <<>>]
Unwound == [pc |-> "panicked", pos |-> 0, rules |-> <<>>, selectors |-> <<>>, declarations |-> <<>>]

\* no Stylesheet has been returned
NoSheet == [returned |-> FALSE, rules |-> <<>>]

\* parse_rules, one turn of its loop: return at the end of the input, else
\* parse_rule up to and with the '{' that parse_declarations consumes
rules_turn(input, st) ==
    LET p == whitespace_end(input, st.pos) IN
    IF eof(input, p) THEN [st EXCEPT !.pc = "returned", !.pos = p]
    ELSE LET s == parse_selectors(input, p) IN
         IF ~s.ok THEN Unwound
         ELSE IF input[s.pos] # "{" THEN Unwound
         ELSE [st EXCEPT !.pc = "declarations", !.pos = s.pos + 1,
                         !.selectors = s.val, !.declarations = <<>>]

\* parse_declarations, one turn of its loop: the closing '}' ends the rule,
\* which parse_rules pushes; anything else must be a declaration
declarations_turn(input, st) ==
    LET p == whitespace_end(input, st.pos) IN
    IF eof(input, p) THEN Unwound                   \* next_char unwraps None
    ELSE IF input[p] = "}"
    THEN [st EXCEPT !.pc = "rules", !.pos = p + 1,
                    !.rules = Append(@, [selectors |-> st.selectors,
                                         declarations |-> st.declarations]),
                    !.selectors = <<>>, !.declarations = <<>>]
    ELSE LET d == parse_declaration(input, p) IN
         IF ~d.ok THEN Unwound
         ELSE [st EXCEPT !.pos = d.pos, !.declarations = Append(@, d.val)]

\* ------------------------------------------------------- bounded inputs
\* Pixel lengths and other values a declaration may carry.
DeclValues == {Auto, Length(10, "Px"), Length(30, "Px"), Length(120, "Px")}

Properties ==
    {"width", "height",
     "margin", "margin-left", "margin-right", "margin-top", "margin-bottom",
     "border-width", "border-left-width", "border-right-width",
     "border-top-width", "border-bottom-width",
     "padding", "padding-left", "padding-right", "padding-top", "padding-bottom",
     "padding-width", "padding-top-width", "padding-bottom-width"}

NoDecls == [p \in {} |-> Auto]

Declare(s, p, v) == [q \in DOMAIN s \cup {p} |-> IF q = p THEN v ELSE s[q]]

RECURSIVE Styles(_)
\* the specified-value maps with at most k declarations
Styles(k) ==
    IF k = 0 THEN {NoDecls}
    ELSE LET S == Styles(k - 1) IN
         S \cup {Declare(s, p, v) : s \in S, p \in Properties, v \in DeclValues}

\* The two styles used inside multi-node trees.
TallStyle ==
    [p \in {"height", "margin-top", "border-top-width", "border-bottom-width", "padding-top"} |->
        CASE p = "height" -> Length(20, "Px")
          [] p = "margin-top" -> Length(10, "Px")
          [] p = "border-top-width" -> Length(4, "Px")
          [] p = "border-bottom-width" -> Length(2, "Px")
          [] p = "padding-top" -> Length(6, "Px")]
TreeStyles == {NoDecls, TallStyle}

StyledNode(id, d, s, kids) == [id |-> id, display |-> d, specified |-> s, children |-> kids]

RECURSIVE Trees(_, _)
RECURSIVE Forests(_, _, _)
\* styled trees of exactly n nodes whose root has address `path`
Trees(n, path) ==
    {StyledNode(path, d, s, kids) :
        d \in Display, s \in TreeStyles, kids \in Forests(n - 1, path, 1)}
\* sequences of sibling trees with n nodes in all, the first at path \o <<i>>
Forests(n, path, i) ==
    IF n = 0 THEN {<<>>}
    ELSE UNION {{<<t>> \o f : t \in Trees(k, Append(path, i)),
                              f \in Forests(n - k, path, i + 1)} : k \in 1..n}

ContainingBlock(y, w, h) ==
    [DefaultDimensions EXCEPT !.content = [x |-> 0, y |-> y, width |-> w, height |-> h]]

IncomingHeights == {0, 50}

InitLayout ==
    /\ \/ /\ tree \in UNION {Trees(n, <<>>) : n \in 1..MaxNodes}
          /\ cb = ContainingBlock(8, 100, 0)
       \/ /\ tree \in {StyledNode(<<>>, d, s, <<>>) : d \in Display, s \in Styles(MaxDecls)}
          /\ cb \in {ContainingBlock(0, w, 0) : w \in {100, 20}}
    /\ out = NoBox
    /\ prev = NoBox
    /\ calls = 0
    /\ incoming = <<>>
    /\ written = <<>>
    /\ source = <<>>
    /\ parser = Idle
    /\ sheet = NoSheet

\* One call of layout_tree on the unchanged styled tree; the caller's
\* containing block may carry any content.height into the call.
LayoutTree ==
    /\ calls < MaxCalls
    /\ \E h \in IncomingHeights :
          /\ out' = layout_tree(tree, [cb EXCEPT !.content.height = h])
          /\ incoming' = Append(incoming, h)
    /\ prev' = out
    /\ calls' = calls + 1
    /\ UNCHANGED <<tree, cb, written, source, parser, sheet>>

Next == LayoutTree

Spec == InitLayout /\ [][Next]_vars

\* ------------------------------------------- bounded stylesheet sources

SelectorTexts ==
    {<<"d", "i", "v">>, <<"p">>, <<"#", "a">>, <<".", "b">>, <<".", "b", ".", "c">>,
     <<"*">>, <<"p", "#", "a">>}

RECURSIVE SelectorLists(_)
\* the lists of exactly n selector texts
SelectorLists(n) ==
    IF n = 0 THEN {<<>>}
    ELSE {Append(l, t) : l \in SelectorLists(n - 1), t \in SelectorTexts}

\* what may follow a selector group: '{', or a character that is neither
\* ',' nor '{'
GoodTerminators == {<<"{">>, <<" ", "{", " ">>}
BadTerminators == {<<":", "{">>, <<";">>}

\* declaration lists of a rule, well-formed and with one listed violation
GoodDeclarations ==
    {<<>>,
     <<"c", ":", "r", "e", "d", ";">>,
     <<"w", " ", ":", " ", "1", "0", "p", "x", " ", ";", " ">>,
     <<"w", ":", "1", "2", ".", "5", "P", "x", ";">>,
     <<"c", ":", "#", "f", "f", "0", "0", "8", "0", ";">>,
     <<"c", ":", "r", "e", "d", ";", "w", ":", "1", "0", "p", "x", ";">>}
MissingColon == {<<"c", " ", "r", "e", "d", ";">>, <<"c", ";">>}
MissingSemicolon == {<<"c", ":", "r", "e", "d">>, <<"c", ":", "r", "e", "d", ";", "w", ":", "1", "0", "p", "x">>}
TruncatedColour ==
    {<<"c", ":", "#", "f", "f", "f", ";">>,
     <<"c", ":", "#", "f", "f", "0", "0", "8", ";">>,
     <<"c", ":", "#", ";">>,
     <<"c", ":", "#", "+", "f", "+", "0", "+", "8", ";">>}
UnknownUnit == {<<"w", ":", "1", "0", "e", "m", ";">>, <<"w", ":", "1", "0", ";">>,
                <<"w", ":", "1", "0", " ", "p", "x", ";">>}
BadDeclarations == MissingColon \cup MissingSemicolon \cup TruncatedColour \cup UnknownUnit

RuleText(selectors, sep, term, decls, close) ==
    [selectors |-> selectors, sep |-> sep, term |-> term, decls |-> decls, close |-> close]

\* rules whose selector group varies and whose body is well-formed
SelectorRules(n) ==
    {RuleText(l, sep, term, d, <<"}">>) :
        l \in SelectorLists(n), sep \in {<<",">>, <<",", " ">>},
        term \in GoodTerminators, d \in {<<>>, <<"c", ":", "r", "e", "d", ";">>}}

\* rules on one selector: well-formed ones, and ones with one part malformed
BodyRules ==
    {RuleText(<<<<"p">>>>, <<",">>, term, d, <<"}">>) :
        term \in GoodTerminators, d \in GoodDeclarations}
    \cup {RuleText(<<<<"p">>>>, <<",">>, term, <<"c", ":", "r", "e", "d", ";">>, <<"}">>) :
        term \in BadTerminators}
    \cup {RuleText(<<<<"p">>>>, <<",">>, <<"{">>, d, <<"}">>) : d \in BadDeclarations}
    \cup {RuleText(<<<<"p">>>>, <<",">>, <<"{">>, d, <<>>) :
        d \in {<<>>, <<"c", ":", "r", "e", "d", ";">>}}

RECURSIVE RuleLists(_)
RuleLists(n) ==
    IF n = 0 THEN {<<>>}
    ELSE {Append(l, r) : l \in RuleLists(n - 1), r \in BodyRules}

RECURSIVE Join(_, _, _)
Join(texts, sep, n) ==
    IF n = 0 THEN <<>>
    ELSE IF n = 1 THEN texts[1]
    ELSE Join(texts, sep, n - 1) \o sep \o texts[n]

RenderRule(r) == Join(r.selectors, r.sep, Len(r.selectors)) \o r.term \o r.decls \o r.close

RECURSIVE Render(_, _)
\* the source text of the first n rules, one rule per line
Render(rules, n) ==
    IF n = 0 THEN <<>> ELSE Render(rules, n - 1) \o RenderRule(rules[n]) \o <<"\n">>

InitCss ==
    /\ written \in UNION {{<<r>> : r \in SelectorRules(n)} : n \in 1..MaxSelectors}
                   \cup UNION {RuleLists(n) : n \in 0..MaxRules}
    /\ source = Render(written, Len(written))
    /\ parser = Idle
    /\ sheet = NoSheet
    /\ tree = StyledNode(<<>>, "Block", NoDecls, <<>>)
    /\ cb = ContainingBlock(0, 0, 0)
    /\ out = NoBox
    /\ prev = NoBox
    /\ calls = 0
    /\ incoming = <<>>

layoutVars == <<tree, cb, out, prev, calls, incoming>>

\* parse: a Parser at position 0 enters parse_rules
ParseCall ==
    /\ parser.pc = "idle"
    /\ parser' = [parser EXCEPT !.pc = "rules"]
    /\ UNCHANGED <<layoutVars, written, source, sheet>>

\* a turn of the loop of parse_rules; at the end of the input parse returns
\* the Stylesheet
ParseRulesTurn ==
    /\ parser.pc = "rules"
    /\ parser' = rules_turn(source, parser)
    /\ sheet' = IF parser'.pc = "returned"
                THEN [returned |-> TRUE, rules |-> parser'.rules] ELSE sheet
    /\ UNCHANGED <<layoutVars, written, source>>

\* a turn of the loop of parse_declarations
ParseDeclarationsTurn ==
    /\ parser.pc = "declarations"
    /\ parser' = declarations_turn(source, parser)
    /\ UNCHANGED <<layoutVars, written, source, sheet>>

NextCss == ParseCall \/ ParseRulesTurn \/ ParseDeclarationsTurn

SpecCss == InitCss /\ [][NextCss]_vars

\* ===================================================== claims: layout.rs
RECURSIVE BoxesOf(_)
\* every box of a box tree
BoxesOf(b) == {b} \cup UNION {BoxesOf(b.children[i]) : i \in 1..Len(b.children)}

Returned == calls > 0 /\ ~IsPanic(out)

IsBlockBox(b) == b.box_type.tag = "BlockNode"
HasNode(b) == b.box_type.tag \in {"BlockNode", "InlineNode"}

\* the pixel value declared for a property (0 when auto or undeclared)
Declared(node, name, shorthand) == to_px(lookup(node, name, shorthand, Zero))

\* ---- C1
IsAuto(node, name, shorthand) == lookup(node, name, shorthand, Zero) = Auto

Underflow(node, containing_width) ==
    containing_width
    - (Declared(node, "margin-left", "margin") + Declared(node, "margin-right", "margin")
       + Declared(node, "border-left-width", "border-width")
       + Declared(node, "border-right-width", "border-width")
       + Declared(node, "padding-left", "padding") + Declared(node, "padding-right", "padding"))

AutoWidthCase(node, containing_width) ==
    /\ value(node, "width") \in {NoValue, Auto}
    /\ ~IsAuto(node, "margin-left", "margin")
    /\ ~IsAuto(node, "margin-right", "margin")
    /\ Underflow(node, containing_width) >= 0

RECURSIVE AutoWidthFills(_, _)
AutoWidthFills(b, containing_width) ==
    /\ (IsBlockBox(b) /\ AutoWidthCase(b.box_type.node, containing_width))
          => b.dimensions.content.width = Underflow(b.box_type.node, containing_width)
    /\ \A i \in 1..Len(b.children) :
          AutoWidthFills(b.children[i], b.dimensions.content.width)

\* C1: every Block box with width auto (or unset), margins not auto and
\* underflow >= 0 has content.width equal to that underflow in the tree
\* layout_tree returns.
C1_AutoWidthFillsUnderflow == Returned => AutoWidthFills(out, cb.content.width)

\* ---- C2
NotNone(kids) == SelectSeq(kids, LAMBDA k : display(k) # "DisplayNone")

Ids(kids) == [i \in 1..Len(kids) |-> kids[i].id]

RECURSIVE Grouped(_, _)
\* the children a Block node's box must have: each maximal run of Inline
\* children under one AnonymousBlock, Block children direct
Grouped(kids, acc) ==
    IF kids = <<>> THEN acc
    ELSE LET k == Head(kids) IN
         IF display(k) = "Block"
         THEN Grouped(Tail(kids), Append(acc, <<"BlockNode", k.id>>))
         ELSE IF acc # <<>> /\ acc[Len(acc)][1] = "AnonymousBlock"
         THEN Grouped(Tail(kids),
                      [acc EXCEPT ![Len(acc)] = <<"AnonymousBlock", Append(@[2], k.id)>>])
         ELSE Grouped(Tail(kids), Append(acc, <<"AnonymousBlock", <<k.id>>>>))

\* what a box's children are: tag and node, or the nodes inside an AnonymousBlock
ChildShape(c) ==
    IF c.box_type.tag = "AnonymousBlock"
    THEN <<"AnonymousBlock",
           [j \in 1..Len(c.children) |->
               IF c.children[j].box_type.tag = "InlineNode"
               THEN c.children[j].box_type.node.id ELSE <<-1>>]>>
    ELSE <<c.box_type.tag, c.box_type.node.id>>

\* C2: no Block box has an Inline box as a direct child; each maximal run of
\* consecutive Inline children of a Block node sits, in order, under exactly
\* one AnonymousBlock child.
C2_InlineRunsGrouped ==
    Returned =>
        \A b \in BoxesOf(out) :
            (IsBlockBox(b) /\ display(b.box_type.node) = "Block") =>
                /\ \A i \in 1..Len(b.children) : b.children[i].box_type.tag # "InlineNode"
                /\ [i \in 1..Len(b.children) |-> ChildShape(b.children[i])]
                     = Grouped(NotNone(b.box_type.node.children), <<>>)

\* ---- C3
RECURSIVE SumMarginBoxHeights(_, _)
\* margin-box heights of the first n boxes of kids, added up
SumMarginBoxHeights(kids, n) ==
    IF n = 0 THEN 0
    ELSE SumMarginBoxHeights(kids, n - 1) + margin_box(kids[n].dimensions).height

HasPixelHeight(node) ==
    LET h == value(node, "height") IN
    IF h.kind = "Length" THEN h.unit = "Px" ELSE FALSE

Stacked(b) ==
    /\ b.dimensions.content.height = SumMarginBoxHeights(b.children, Len(b.children))
    /\ \A i \in 1..Len(b.children) :
          LET c == b.children[i].dimensions IN
          c.content.y = b.dimensions.content.y + SumMarginBoxHeights(b.children, i - 1)
                        + c.margin.top + c.border.top + c.padding.top

RECURSIVE NodeIds(_)
NodeIds(n) == {n.id} \cup UNION {NodeIds(n.children[i]) : i \in 1..Len(n.children)}

RECURSIVE PrunedIds(_)
\* the non-root display:none nodes below n, and everything below them
PrunedIds(n) ==
    UNION {IF display(n.children[i]) = "DisplayNone"
           THEN NodeIds(n.children[i])
           ELSE PrunedIds(n.children[i]) : i \in 1..Len(n.children)}

\* C4: no box of the built tree refers to a non-root display:none node or to
\* a descendant of one.
C4_DisplayNonePruned ==
    Returned =>
        \A b \in BoxesOf(out) : HasNode(b) => b.box_type.node.id \notin PrunedIds(tree)

\* ---- C7
\* C7: a DisplayNone root makes the call fail and return no box tree; a Block
\* or Inline root gives a root box whose tag matches the display.
C7_RootDisplay ==
    calls > 0 =>
        /\ display(tree) = "DisplayNone" => IsPanic(out)
        /\ display(tree) = "Block" => out.box_type.tag = "BlockNode"
        /\ display(tree) = "Inline" => out.box_type.tag = "InlineNode"

\* ---- C8
\* C8: two calls with the same styled tree and containing block return
\* identical box trees, whatever content.height the block carried in.
C8_LayoutIsPure == calls >= 2 => out = prev

\* two calls were made with different incoming heights, on a tree with
\* a child placed below the containing block's origin
C8_Witness ==
    /\ calls = 2
    /\ incoming[1] # incoming[2]
    /\ ~IsPanic(out)
    /\ Len(out.children) >= 1
    /\ out.children[1].dimensions.content.y > cb.content.y

\* ---- C9
\* C9: padding-box = content expanded by padding, border-box = padding-box
\* expanded by border, margin-box = border-box expanded by margin.
C9_BoxModelNesting ==
    Returned =>
        \A b \in BoxesOf(out) :
            LET d == b.dimensions IN
            /\ padding_box(d) = expanded_by(d.content, d.padding)
            /\ border_box(d) = expanded_by(expanded_by(d.content, d.padding), d.border)
            /\ margin_box(d)
                 = expanded_by(expanded_by(expanded_by(d.content, d.padding), d.border), d.margin)

\* ---- C10
RECURSIVE PositionResolved(_, _, _)
PositionResolved(b, containing_y, containing_height) ==
    IsBlockBox(b) =>
        LET d == b.dimensions
            n == b.box_type.node
        IN  /\ d.margin.top = Declared(n, "margin-top", "margin")
            /\ d.margin.bottom = Declared(n, "margin-bottom", "margin")
            /\ d.border.top = Declared(n, "border-top-width", "border-width")
            /\ d.border.bottom = Declared(n, "border-bottom-width", "border-width")
            /\ d.padding.top = Declared(n, "padding-top", "padding")
            /\ d.padding.bottom = Declared(n, "padding-bottom", "padding")
            /\ d.content.y = containing_y + containing_height
                              + d.margin.top + d.border.top + d.padding.top
            /\ \A i \in 1..Len(b.children) :
                  PositionResolved(b.children[i], d.content.y,
                                   SumMarginBoxHeights(b.children, i - 1))

\* C10: after layout a Block box's vertical margin, border and padding edges
\* equal the declared pixel values (0 for auto or undeclared) and content.y =
\* containing content.y + containing content.height + margin.top + border.top
\* + padding.top.
C10_PositionResolution == Returned => PositionResolved(out, cb.content.y, 0)

\* ======================================================== claims: css.rs
Finished == parser.pc \in {"returned", "panicked"}

\* ---- C5
\* the selectors of a rule parsed one by one, in source order
InSourceOrder(rule) ==
    [i \in 1..Len(rule.selectors) |-> parse_simple_selector(rule.selectors[i], 1).val]

Bijections(n) == {f \in [1..n -> 1..n] : \A i, j \in 1..n : i # j => f[i] # f[j]}

SortedStable(R, P) ==
    /\ Len(R) = Len(P)
    /\ \A i \in 1..(Len(R) - 1) : cmp(specificity(R[i]), specificity(R[i + 1])) # "Less"
    /\ \E f \in Bijections(Len(R)) :
          /\ \A i \in 1..Len(R) : R[i] = P[f[i]]
          /\ \A i, j \in 1..Len(R) :
                (i < j /\ specificity(R[i]) = specificity(R[j])) => f[i] < f[j]

\* C5: the selector list parse_selectors returns for a rule is a permutation
\* of the rule's selectors, non-increasing in specificity compared
\* lexicographically, with selectors of equal specificity in source order.
C5_SelectorsSortedStable ==
    /\ \A k \in 1..Len(parser.rules) :
          SortedStable(parser.rules[k].selectors, InSourceOrder(written[k]))
    /\ parser.pc = "declarations" =>
          SortedStable(parser.selectors, InSourceOrder(written[Len(parser.rules) + 1]))

\* parse_selectors returned a list that the sort reordered and that holds two
\* different selectors of equal specificity
C5_Witness ==
    /\ parser.pc = "declarations"
    /\ parser.selectors # InSourceOrder(written[Len(parser.rules) + 1])
    /\ \E i, j \in 1..Len(parser.selectors) :
          /\ i < j
          /\ parser.selectors[i] # parser.selectors[j]
          /\ specificity(parser.selectors[i]) = specificity(parser.selectors[j])

\* ---- C6
ListedViolation(rule) ==
    \/ rule.term \notin GoodTerminators     \* selector group not ended by ',' or '{'
    \/ rule.decls \in MissingColon
    \/ rule.decls \in MissingSemicolon
    \/ rule.close # <<"}">>                 \* rule without its closing '}'
    \/ rule.decls \in TruncatedColour       \* '#' colour with fewer than 6 hex digits
    \/ rule.decls \in UnknownUnit           \* length whose unit is not px

\* C6: a listed grammar violation anywhere in the source makes parse fail as
\* a whole; no Stylesheet is returned.
C6_ViolationAbortsParse ==
    (Finished /\ \E k \in 1..Len(written) : ListedViolation(written[k]))
        => (parser.pc = "panicked" /\ ~sheet.returned)

====
